---- MODULE Spec2Model ----
(***************************************************************************)
(* Data Quality Checks (src/main.py): the four checkers check_nulls,        *)
(* check_duplicates, check_data_types and check_ranges over one shared      *)
(* pandas DataFrame, and the "Run Data Quality Checks" button handler that  *)
(* calls them in sequence.                                                  *)
(*                                                                          *)
(* A cell is a record [t, n, s]: t is the Python type of the value ("int",  *)
(* "float", "str") or "null" for a missing value (NaN), n its numeric value *)
(* and s its text (a sequence of one-character strings).  A column is a     *)
(* sequence of cells, a DataFrame a function from column names to columns   *)
(* of one length.  As in a frame read by pd.read_csv, a column holds one    *)
(* dtype: int64 (no missing value), float64 (NaN allowed) or object (text). *)
(***************************************************************************)
EXTENDS Integers, Sequences, FiniteSets, TLC

\* ---------------------------------------------------------------- bounds
\* Largest number of rows of the uploaded dataset.
MaxRows == 3

\* ---------------------------------------------------------------- values
NaN == [t |-> "null", n |-> 0, s |-> <<>>]
IntV(k) == [t |-> "int", n |-> k, s |-> <<>>]
FloatV(k) == [t |-> "float", n |-> k, s |-> <<>>]
StrV(w) == [t |-> "str", n |-> 0, s |-> w]

\* The columns of the uploaded dataset, in header order, and a name that is
\* not a column of it.
ColOrder == <<"a", "b">>
Cols == {"a", "b"}
Absent == "z"
Names == Cols \cup {Absent}
NameOrder == <<"a", "b", "z">>

\* The values the columns of the explored datasets draw from: an int64 column
\* holds 1 and 5, a float64 column 5.0 and NaN, an object column the texts
\* "12" (a number) and "x" (not a number).  Missing values of the loaded
\* datasets sit in float64 columns; coercion adds them to text columns.
IntVals == {IntV(1), IntV(5)}
FloatVals == {FloatV(5), NaN}
ObjVals == {StrV(<<"1", "2">>), StrV(<<"x">>)}

ColumnsOfLen(k) ==
    [1..k -> IntVals] \cup [1..k -> FloatVals] \cup [1..k -> ObjVals]

\* load_data: the frames the dataset is drawn from, of 0 to MaxRows rows.
Datasets == UNION {[Cols -> ColumnsOfLen(k)] : k \in 0..MaxRows}

NRows(d) == Len(d[ColOrder[1]])

\* ------------------------------------------------------------ results
\* What a call gives back: a value, or the exception that left the function.
Ok(v) == [ok |-> TRUE, exc |-> "", val |-> v]
Raise(e) == [ok |-> FALSE, exc |-> e, val |-> <<>>]

\* ------------------------------------------------------- check_nulls
\* `columns` is the set of the names in the list passed; expected_types and
\* range_rules are functions from names to rules, visited in NameOrder.
isnull(v) == v.t = "null"

RECURSIVE sum(_)
\* Series.sum over a boolean column: True counts 1.
sum(mask) ==
    IF mask = <<>> THEN 0
    ELSE (IF Head(mask) THEN 1 ELSE 0) + sum(Tail(mask))

\* df[columns].count(): counts the values that are present instead.
check_nulls_count(d, columns) ==
    IF columns \subseteq DOMAIN d
    THEN Ok([c \in columns |-> sum([i \in 1..NRows(d) |-> ~isnull(d[c][i])])])
    ELSE Raise("KeyError")

\* Defensive filtering: names that are not columns are dropped, not looked up.
check_nulls_filtered(d, columns) ==
    Ok([c \in columns \cap DOMAIN d |->
            sum([i \in 1..NRows(d) |-> isnull(d[c][i])])])

check_nulls(d, columns) ==
    IF columns \subseteq DOMAIN d
    THEN Ok([c \in columns |-> sum([i \in 1..NRows(d) |-> isnull(d[c][i])])])
    ELSE Raise("KeyError")

\* --------------------------------------------------- check_duplicates
\* The row signature: the tuple of a row's values over all columns.
Row(d, i) == [k \in 1..Len(ColOrder) |-> d[ColOrder[k]][i]]

\* DataFrame.duplicated() with the default keep='first': the first row of a
\* signature is not marked.
duplicated_keep_first(d) ==
    [i \in 1..NRows(d) |->
        \E j \in 1..NRows(d) : j < i /\ Row(d, j) = Row(d, i)]

\* DataFrame.duplicated(keep=False): a row is marked when another row has
\* the same values in every column; two missing values count as equal.
duplicated(d) ==
    [i \in 1..NRows(d) |->
        \E j \in 1..NRows(d) : j # i /\ Row(d, j) = Row(d, i)]

\* df[mask]: the rows the mask selects, in order.
RECURSIVE SelectRows(_, _, _)
SelectRows(d, mask, i) ==
    IF i > NRows(d) THEN <<>>
    ELSE (IF mask[i] THEN <<Row(d, i)>> ELSE <<>>) \o SelectRows(d, mask, i + 1)

\* groupby(..., dropna=True), the default: a row with a missing value in any
\* key column belongs to no group.
HasNullKey(r) == \E k \in 1..Len(r) : isnull(r[k])
GroupKeys(rows) == {rows[i] : i \in {j \in 1..Len(rows) : ~HasNullKey(rows[j])}}

\* The order groupby(sort=True) gives the group keys: numbers by value, text
\* by code point, tuples lexicographically.
Alphabet == <<"0", "1", "2", "3", "4", "5", "6", "7", "8", "9", "x">>
Code(c) == CHOOSE k \in 1..Len(Alphabet) : Alphabet[k] = c

RECURSIVE StrLess(_, _)
StrLess(s1, s2) ==
    IF s2 = <<>> THEN FALSE
    ELSE IF s1 = <<>> THEN TRUE
    ELSE IF Head(s1) # Head(s2) THEN Code(Head(s1)) < Code(Head(s2))
    ELSE StrLess(Tail(s1), Tail(s2))

ValLess(v1, v2) ==
    IF v1.t = "str" THEN StrLess(v1.s, v2.s) ELSE v1.n < v2.n

RECURSIVE RowLess(_, _)
RowLess(r1, r2) ==
    IF r1 = <<>> THEN FALSE
    ELSE IF Head(r1) # Head(r2) THEN ValLess(Head(r1), Head(r2))
    ELSE RowLess(Tail(r1), Tail(r2))

RECURSIVE SortKeys(_)
SortKeys(keys) ==
    IF keys = {} THEN <<>>
    ELSE LET least == CHOOSE k \in keys : \A o \in keys : ~RowLess(o, k)
         IN <<least>> \o SortKeys(keys \ {least})

\* .size(): the number of the selected rows in the group of a key.
size(rows, key) == Cardinality({i \in 1..Len(rows) : rows[i] = key})

check_duplicates(d) ==
    LET rows == SelectRows(d, duplicated(d), 1)
        keys == SortKeys(GroupKeys(rows))
    IN [g \in 1..Len(keys) |->
            [key |-> keys[g], dup_count |-> size(rows, keys[g])]]

\* -------------------------------------------------- check_data_types
dropna(col) == SelectSeq(col, LAMBDA v : ~isnull(v))

\* The dtype's name where the value's type name is meant.
TypeName_dtype(v) ==
    CASE v.t = "int" -> "int64"
      [] v.t = "str" -> "object"
      [] OTHER -> "float64"

\* type(v).__name__; a missing value is the float NaN.
TypeName(v) == IF v.t = "null" THEN "float" ELSE v.t

\* Series.mode(): the most frequent values, in the order first met.
Count(types, t) == Cardinality({i \in 1..Len(types) : types[i] = t})
IsMode(types, t) == \A i \in 1..Len(types) : Count(types, types[i]) <= Count(types, t)
mode(types) == SelectSeq(types, LAMBDA t : IsMode(types, t))

TypesOf(col) == [i \in 1..Len(col) |-> TypeName(col[i])]

Mismatch(expected_type, actual_type) ==
    [expected |-> expected_type, found |-> actual_type]

RECURSIVE TypesFrom(_, _, _, _)
\* The loop over expected_types.items(), from the k-th name on.
TypesFrom(d, expected_types, k, mismatches) ==
    IF k > Len(NameOrder) THEN Ok(mismatches)
    ELSE LET col == NameOrder[k] IN
         IF col \notin DOMAIN expected_types \/ col \notin DOMAIN d
         THEN TypesFrom(d, expected_types, k + 1, mismatches)
         ELSE LET modes == mode(TypesOf(dropna(d[col]))) IN
              IF modes = <<>> THEN Raise("KeyError")
              ELSE IF modes[1] # expected_types[col]
              THEN TypesFrom(d, expected_types, k + 1,
                       mismatches @@ (col :> Mismatch(expected_types[col], modes[1])))
              ELSE TypesFrom(d, expected_types, k + 1, mismatches)

check_data_types(d, expected_types) == TypesFrom(d, expected_types, 1, <<>>)

\* ------------------------------------------------------ check_ranges
IsDigit(c) == c \in {"0", "1", "2", "3", "4", "5", "6", "7", "8", "9"}
Digit(c) == Code(c) - 1

RECURSIVE ParseDigits(_, _)
\* The decimal value of a string of digits, read left to right.
ParseDigits(w, acc) ==
    IF w = <<>> THEN acc
    ELSE ParseDigits(Tail(w), 10 * acc + Digit(Head(w)))

Parses(w) == w # <<>> /\ \A k \in 1..Len(w) : IsDigit(w[k])

\* One value under pd.to_numeric(errors='coerce'): text that is a number
\* becomes that number, any other text becomes missing, a number stays.
Coerce(v) ==
    IF v.t = "str"
    THEN (IF Parses(v.s) THEN IntV(ParseDigits(v.s, 0)) ELSE NaN)
    ELSE v

\* pd.to_numeric(col, errors='coerce'): the result has one dtype, int64 when
\* every value is an integer and float64 as soon as one is a float or missing.
to_numeric(col) ==
    LET parsed == [i \in 1..Len(col) |-> Coerce(col[i])]
        asFloat == \E i \in 1..Len(col) : parsed[i].t \in {"float", "null"}
    IN [i \in 1..Len(col) |->
            IF asFloat /\ parsed[i].t = "int" THEN FloatV(parsed[i].n) ELSE parsed[i]]

\* A bound a numeric column can be compared with; comparing with any other
\* bound raises TypeError.
Comparable(bound) == bound.t \in {"int", "float"}

\* & where | is meant: below the minimum and above the maximum.
OutOfRange_and(v, min_val, max_val) ==
    /\ ~isnull(v)
    /\ (v.n < min_val.n /\ v.n > max_val.n)

\* Bounds given in the wrong order put in order first.
OutOfRange_ordered(v, min_val, max_val) ==
    /\ ~isnull(v)
    /\ IF min_val.n <= max_val.n
       THEN (v.n < min_val.n \/ v.n > max_val.n)
       ELSE (v.n < max_val.n \/ v.n > min_val.n)

\* (df[col] < min_val) | (df[col] > max_val) for one value; NaN compares False.
OutOfRange(v, min_val, max_val) ==
    /\ ~isnull(v)
    /\ (v.n < min_val.n \/ v.n > max_val.n)

RECURSIVE InvalidRows(_, _, _, _)
\* invalid[[col]]: the violating rows, by index, restricted to the column.
InvalidRows(col, min_val, max_val, i) ==
    IF i > Len(col) THEN <<>>
    ELSE (IF OutOfRange(col[i], min_val, max_val)
          THEN <<[index |-> i, value |-> col[i]]>> ELSE <<>>)
         \o InvalidRows(col, min_val, max_val, i + 1)

RowsEntry(rows) == [kind |-> "rows", rows |-> rows]
ErrorEntry == [kind |-> "error", rows |-> <<>>]

\* The coerced column kept in a local copy: df itself is not assigned to.
AssignCoerced_copy(d, col) == d

\* df[col] = pd.to_numeric(df[col], errors='coerce')
AssignCoerced(d, col) == [d EXCEPT ![col] = to_numeric(d[col])]

\* The try block for one column: the frame after the assignment, and either
\* the violating rows or the exception the comparison raised.
TryBlock(d, col, min_val, max_val) ==
    LET d2 == AssignCoerced(d, col) IN
    IF Comparable(min_val) /\ Comparable(max_val)
    THEN [df |-> d2, raised |-> FALSE,
          invalid |-> InvalidRows(d2[col], min_val, max_val, 1)]
    ELSE [df |-> d2, raised |-> TRUE, invalid |-> <<>>]

RECURSIVE RangesFrom(_, _, _, _)
RECURSIVE except_Exception(_, _, _, _)

\* No except clause: the exception leaves check_ranges.
except_none(d, range_rules, k, violations) ==
    [df |-> d, ret |-> Raise("TypeError")]

\* except Exception as e: the column's entry is the error text and the loop
\* goes on with the next rule.
except_Exception(d, range_rules, k, violations) ==
    RangesFrom(d, range_rules, k + 1, violations @@ (NameOrder[k] :> ErrorEntry))

\* The loop over range_rules.items(), from the k-th name on; gives the frame
\* as the loop leaves it and what the function returns.
RangesFrom(d, range_rules, k, violations) ==
    IF k > Len(NameOrder) THEN [df |-> d, ret |-> Ok(violations)]
    ELSE LET col == NameOrder[k] IN
         IF col \notin DOMAIN range_rules \/ col \notin DOMAIN d
         THEN RangesFrom(d, range_rules, k + 1, violations)
         ELSE LET try == TryBlock(d, col, range_rules[col][1], range_rules[col][2]) IN
              IF try.raised
              THEN except_Exception(try.df, range_rules, k, violations)
              ELSE IF try.invalid # <<>>
              THEN RangesFrom(try.df, range_rules, k + 1,
                       violations @@ (col :> RowsEntry(try.invalid)))
              ELSE RangesFrom(try.df, range_rules, k + 1, violations)

check_ranges(d, range_rules) == RangesFrom(d, range_rules, 1, <<>>)

\* ------------------------------------- "Run Data Quality Checks" handler
\* An exception nothing catches ends the script run: what was written to the
\* page before it stays, nothing after it is executed.
Raised(e, report) == [ok |-> FALSE, exc |-> e, val |-> report]

\* One st.write under a subheader: a message, or the data of a result.
Msg(section, text) == [section |-> section, msg |-> text, data |-> <<>>]
Data(section, v) == [section |-> section, msg |-> "", data |-> v]

NullSection(nulls, null_check_cols) ==
    IF null_check_cols # {}
    THEN Data("Null Value Check", nulls.val)
    ELSE Msg("Null Value Check", "No columns selected for null check.")

DupSection(duplicates) ==
    IF duplicates # <<>>
    THEN Data("Duplicate Records", duplicates)
    ELSE Msg("Duplicate Records", "No duplicate records found.")

TypeSection(type_mismatches, expected_types) ==
    IF DOMAIN expected_types = {}
    THEN Msg("Data Type Validation", "No columns selected for type validation.")
    ELSE IF DOMAIN type_mismatches.val # {}
    THEN Data("Data Type Validation", type_mismatches.val)
    ELSE Msg("Data Type Validation", "All types match expected values.")

RangeSection(range_violations, range_rules) ==
    IF DOMAIN range_rules = {}
    THEN Msg("Range Validation", "No columns selected for range validation.")
    ELSE IF DOMAIN range_violations # {}
    THEN Data("Range Validation", range_violations)
    ELSE Msg("Range Validation", "All values within specified ranges.")

\* The body of `if st.button("Run Data Quality Checks")`: the frame the run
\* leaves and the page it wrote.
run_checks(d, null_check_cols, expected_types, range_rules) ==
    LET nulls == IF null_check_cols # {} THEN check_nulls(d, null_check_cols)
                 ELSE Ok(<<>>)
        duplicates == check_duplicates(d)
        type_mismatches == IF DOMAIN expected_types # {}
                           THEN check_data_types(d, expected_types)
                           ELSE Ok(<<>>)
        ranges == IF DOMAIN range_rules # {} THEN check_ranges(d, range_rules)
                  ELSE [df |-> d, ret |-> Ok(<<>>)]
        page2 == <<NullSection(nulls, null_check_cols), DupSection(duplicates)>>
    IN IF ~nulls.ok
       THEN [df |-> d, ret |-> Raised(nulls.exc, <<>>)]
       ELSE IF ~type_mismatches.ok
       THEN [df |-> d, ret |-> Raised(type_mismatches.exc, page2)]
       ELSE LET page3 == page2 \o <<TypeSection(type_mismatches, expected_types)>> IN
            IF ~ranges.ret.ok
            THEN [df |-> ranges.df, ret |-> Raised(ranges.ret.exc, page3)]
            ELSE [df |-> ranges.df,
                  ret |-> Ok(page3 \o <<RangeSection(ranges.ret.val, range_rules)>>)]

\* ---------------------------------------------------------------- state
VARIABLES
    df,     \* the loaded DataFrame every checker is called on
    orig,   \* the DataFrame as load_data returned it
    call,   \* the call whose result is pending: its name, arguments, and df before it
    ret     \* what that call returned or raised

vars == <<df, orig, call, ret>>

NoCall == [op |-> "none", args |-> <<>>, pre |-> <<>>]

Init ==
    /\ df \in Datasets
    /\ orig = df
    /\ call = NoCall
    /\ ret = Ok(<<>>)

Idle == call.op = "none"

\* The arguments the calls are made with.  The two columns of the dataset
\* range over the same values, so rules for one present column name "a".
NullColumnSets == SUBSET Names \ {{}}

RuleDomains == {{}, {"a"}, Cols, {Absent}, {"a", Absent}}

ExpectedTypeTags == {"int", "float", "str"}
TypeRuleSets ==
    {r \in UNION {[D -> ExpectedTypeTags] : D \in RuleDomains} :
        Absent \in DOMAIN r => r[Absent] = "int"}

\* number_input bounds 0 and 3, and a bound that is not a number.
Lo == FloatV(0)
Hi == FloatV(3)
BadBound == StrV(<<"x">>)
NumericPairs == {<<Lo, Hi>>, <<Hi, Lo>>}
RangePairs == NumericPairs \cup {<<Lo, BadBound>>}
RangeRuleSets ==
    {r \in UNION {[D -> RangePairs] : D \in RuleDomains} :
        Absent \in DOMAIN r => r[Absent] = <<Lo, Hi>>}

\* What the sidebar can configure: columns come from df.columns, bounds are
\* numbers.
UINullCols == {{}, Cols}
UITypeRules == {<<>>} \cup [{"a"} -> ExpectedTypeTags]
UIRangeRules == {<<>>} \cup [{"a"} -> {<<Lo, Hi>>}]

CheckNulls(columns) ==
    /\ Idle
    /\ call' = [op |-> "nulls", args |-> columns, pre |-> df]
    /\ ret' = check_nulls(df, columns)
    /\ UNCHANGED <<df, orig>>

CheckDuplicates ==
    /\ Idle
    /\ call' = [op |-> "duplicates", args |-> <<>>, pre |-> df]
    /\ ret' = Ok(check_duplicates(df))
    /\ UNCHANGED <<df, orig>>

CheckDataTypes(expected_types) ==
    /\ Idle
    /\ call' = [op |-> "types", args |-> expected_types, pre |-> df]
    /\ ret' = check_data_types(df, expected_types)
    /\ UNCHANGED <<df, orig>>

CheckRanges(range_rules) ==
    /\ Idle
    /\ call' = [op |-> "ranges", args |-> range_rules, pre |-> df]
    /\ LET r == check_ranges(df, range_rules)
       IN ret' = r.ret /\ df' = r.df
    /\ UNCHANGED orig

RunChecks(null_check_cols, expected_types, range_rules) ==
    /\ Idle
    /\ call' = [op |-> "run",
                args |-> [null_check_cols |-> null_check_cols,
                          expected_types |-> expected_types,
                          range_rules |-> range_rules],
                pre |-> df]
    /\ LET r == run_checks(df, null_check_cols, expected_types, range_rules)
       IN ret' = r.ret /\ df' = r.df
    /\ UNCHANGED orig

\* The caller takes the result; the next check may be invoked.
Return ==
    /\ ~Idle
    /\ call' = NoCall
    /\ ret' = Ok(<<>>)
    /\ UNCHANGED <<df, orig>>

Next ==
    \/ \E columns \in NullColumnSets : CheckNulls(columns)
    \/ CheckDuplicates
    \/ \E expected_types \in TypeRuleSets : CheckDataTypes(expected_types)
    \/ \E range_rules \in RangeRuleSets : CheckRanges(range_rules)
    \/ \E null_check_cols \in UINullCols, expected_types \in UITypeRules,
          range_rules \in UIRangeRules :
            RunChecks(null_check_cols, expected_types, range_rules)
    \/ Return

Spec == Init /\ [][Next]_vars

\* ================================================================ claims
\* What the claims speak of, stated over the dataset a call was made on.
MissingRows(col) == {i \in 1..Len(col) : col[i].t = "null"}
Signatures(d) == {Row(d, i) : i \in 1..NRows(d)}
RowsWith(d, sig) == {i \in 1..NRows(d) : Row(d, i) = sig}
EntriesFor(result, sig) == {g \in 1..Len(result) : result[g].key = sig}

\* C1: check_nulls called with a non-empty list of columns that all exist
\* returns, for exactly the requested columns, the number of rows whose value
\* in the column is missing (0 for a column with no missing value).
C1_NullCounts ==
    (call.op = "nulls" /\ call.args \subseteq DOMAIN call.pre) =>
        /\ ret.ok
        /\ DOMAIN ret.val = call.args
        /\ \A c \in call.args :
              ret.val[c] = Cardinality(MissingRows(call.pre[c]))

\* A null check of both columns: one has two missing values, the other none.
C1_Witness ==
    /\ call.op = "nulls"
    /\ call.args = Cols
    /\ ret.ok
    /\ ret.val["a"] = 2
    /\ ret.val["b"] = 0

\* C2: every row signature that occurs in two or more rows, a missing value
\* in it or not, appears in exactly one entry of check_duplicates' result, with
\* count >= 2; a dataset with no repeated signature yields an empty result.
C2_DuplicateCompleteness ==
    call.op = "duplicates" =>
        /\ \A sig \in Signatures(call.pre) :
              Cardinality(RowsWith(call.pre, sig)) >= 2 =>
                  /\ Cardinality(EntriesFor(ret.val, sig)) = 1
                  /\ \A g \in EntriesFor(ret.val, sig) : ret.val[g].dup_count >= 2
        /\ (\A sig \in Signatures(call.pre) :
                Cardinality(RowsWith(call.pre, sig)) = 1) => ret.val = <<>>

\* C3: no signature that occurs in exactly one row appears in the result, a
\* signature appears in at most one entry, and the count of every entry is
\* the exact number of rows that have its signature, hence at least 2.
C3_DuplicateExclusion ==
    call.op = "duplicates" =>
        /\ \A sig \in Signatures(call.pre) :
              Cardinality(RowsWith(call.pre, sig)) = 1 => EntriesFor(ret.val, sig) = {}
        /\ \A g, h \in 1..Len(ret.val) : ret.val[g].key = ret.val[h].key => g = h
        /\ \A g \in 1..Len(ret.val) :
              /\ ret.val[g].dup_count = Cardinality(RowsWith(call.pre, ret.val[g].key))
              /\ ret.val[g].dup_count >= 2

\* Three rows, two of one signature and one of its own: one entry, count 2.
C3_Witness ==
    /\ call.op = "duplicates"
    /\ NRows(call.pre) = 3
    /\ Cardinality(Signatures(call.pre)) = 2
    /\ Len(ret.val) = 1
    /\ ret.val[1].dup_count = 2

\* The number a value stands for, if any: a number itself, or text made of
\* decimal digits only.
DigitValue ==
    ("0" :> 0) @@ ("1" :> 1) @@ ("2" :> 2) @@ ("3" :> 3) @@ ("4" :> 4) @@
    ("5" :> 5) @@ ("6" :> 6) @@ ("7" :> 7) @@ ("8" :> 8) @@ ("9" :> 9)

RECURSIVE DecimalValue(_)
DecimalValue(w) ==
    IF w = <<>> THEN 0
    ELSE 10 * DecimalValue(SubSeq(w, 1, Len(w) - 1)) + DigitValue[w[Len(w)]]

HasNumber(v) ==
    \/ v.t \in {"int", "float"}
    \/ v.t = "str" /\ v.s # <<>> /\ \A k \in 1..Len(v.s) : v.s[k] \in DOMAIN DigitValue
NumberOf(v) == IF v.t = "str" THEN DecimalValue(v.s) ELSE v.n

\* new holds the numeric-coerced values of old: the number where old has one,
\* a missing value where it has none.
IsCoercionOf(new, old) ==
    /\ Len(new) = Len(old)
    /\ \A i \in 1..Len(old) :
          IF HasNumber(old[i])
          THEN new[i].t \in {"int", "float"} /\ new[i].n = NumberOf(old[i])
          ELSE new[i].t = "null"

\* The rows of a column whose number lies below min_val or above max_val.
RowsOutside(col, min_val, max_val) ==
    {i \in 1..Len(col) :
        HasNumber(col[i]) /\
        (NumberOf(col[i]) < min_val.n \/ NumberOf(col[i]) > max_val.n)}
ReportedRows(entry) == {entry.rows[k].index : k \in 1..Len(entry.rows)}
IsNumericPair(rule) == rule[1].t \in {"int", "float"} /\ rule[2].t \in {"int", "float"}

\* The rule columns of a call that are columns of the dataset.
RuleColumns == DOMAIN call.args \cap DOMAIN call.pre

\* The entry of a range result for a column lists exactly the rows in `rows`,
\* each once, with the column's number there; no entry when `rows` is empty.
ReportsExactly(c, rows) ==
    IF rows = {} THEN c \notin DOMAIN ret.val
    ELSE /\ c \in DOMAIN ret.val
         /\ ret.val[c].kind = "rows"
         /\ ReportedRows(ret.val[c]) = rows
         /\ Len(ret.val[c].rows) = Cardinality(rows)
         /\ \A k \in 1..Len(ret.val[c].rows) :
               LET r == ret.val[c].rows[k] IN
               /\ r.value.t \in {"int", "float"}
               /\ r.value.n = NumberOf(call.pre[c][r.index])

\* The type tags of the non-missing values of a column, and the tags that
\* occur more often than every other tag.
TagCount(col, tag) == Cardinality({i \in 1..Len(col) : col[i].t = tag})
DominantTags(col) ==
    {tag \in {"int", "float", "str"} :
        /\ TagCount(col, tag) > 0
        /\ \A other \in {"int", "float", "str"} \ {tag} :
              TagCount(col, other) < TagCount(col, tag)}

\* A rule's column gets an entry exactly when its dominant type is not the
\* expected one, and the entry names both.
TypeRuleHolds(c) ==
    \A tag \in DominantTags(call.pre[c]) :
        /\ (ret.ok /\ c \in DOMAIN ret.val) <=> tag # call.args[c]
        /\ (ret.ok /\ c \in DOMAIN ret.val) =>
              ret.val[c] = [expected |-> call.args[c], found |-> tag]

\* C4 as stated: for every rule whose column exists and has a unique most
\* frequent type among its non-missing values, check_data_types records an
\* entry for the column if and only if that type is not the expected one.
C4_TypeDominance ==
    call.op = "types" => \A c \in RuleColumns : TypeRuleHolds(c)

\* C4 amended: the same, for the calls that return, i.e. when no rule of the
\* call names a present column all of whose values are missing (the call then
\* raises and records nothing for any column).
C4_TypeDominanceWhenReturned ==
    (call.op = "types" /\ ret.ok) =>
        /\ \A c \in RuleColumns : TypeRuleHolds(c)
        /\ DOMAIN ret.val \subseteq RuleColumns

\* A returned type check with rules for both columns: one matches and has no
\* entry, the other is reported with the type found.
C4_Witness ==
    /\ call.op = "types"
    /\ ret.ok
    /\ DOMAIN call.args = Cols
    /\ DOMAIN ret.val = {"b"}
    /\ ret.val["b"] = [expected |-> "int", found |-> "str"]
    /\ MissingRows(call.pre["a"]) # {}

\* C5: for every range rule with numeric bounds whose column exists,
\* check_ranges reports for the column exactly the rows whose value after
\* numeric coercion is below min or above max, each with the column's value;
\* a value that is not a number is never reported; no row out of range, no
\* entry.
C5_RangeViolations ==
    call.op = "ranges" =>
        /\ ret.ok
        /\ \A c \in RuleColumns :
              IsNumericPair(call.args[c]) =>
                  /\ ReportsExactly(c, RowsOutside(call.pre[c],
                                        call.args[c][1], call.args[c][2]))
                  /\ \A i \in 1..Len(call.pre[c]) :
                        (c \in DOMAIN ret.val /\ ~HasNumber(call.pre[c][i]))
                            => i \notin ReportedRows(ret.val[c])

\* Rule (0, 3) on a text column holding "12" and "x": the "12" rows are
\* reported, the "x" row is not.
C5_Witness ==
    /\ call.op = "ranges"
    /\ "a" \in DOMAIN call.args
    /\ call.args["a"] = <<Lo, Hi>>
    /\ NRows(call.pre) = 3
    /\ call.pre["a"][1] = StrV(<<"x">>)
    /\ call.pre["a"][2] = StrV(<<"1", "2">>)
    /\ "a" \in DOMAIN ret.val
    /\ ReportedRows(ret.val["a"]) = {2, 3}

\* What a later checker sees in a column: the values as loaded while the
\* column is as loaded, the coerced values once a range check has replaced it.
MissingSeen(c) ==
    IF df[c] = orig[c] THEN MissingRows(orig[c])
    ELSE {i \in 1..Len(orig[c]) : ~HasNumber(orig[c][i])}

C6_State ==
    \* every column is as loaded or holds the coerced values of what was loaded
    /\ \A c \in DOMAIN orig : df[c] = orig[c] \/ IsCoercionOf(df[c], orig[c])
    \* after check_ranges returns: rule columns coerced, the others untouched
    /\ call.op = "ranges" =>
          \A c \in DOMAIN call.pre :
              IF c \in DOMAIN call.args
              THEN IsCoercionOf(df[c], call.pre[c]) /\ IsCoercionOf(df[c], orig[c])
              ELSE df[c] = call.pre[c]
    \* a null check counts the values the column holds at the time of the call
    /\ (call.op = "nulls" /\ ret.ok) =>
          \A c \in call.args : ret.val[c] = Cardinality(MissingSeen(c))
    \* a type check of a coerced column finds a numeric type, never text
    /\ (call.op = "types" /\ ret.ok) =>
          \A c \in RuleColumns :
              df[c] # orig[c] =>
                  /\ c \in DOMAIN ret.val => ret.val[c].found \in {"int", "float"}
                  /\ call.args[c] = "str" => c \in DOMAIN ret.val
    \* in the handler the null and type checks run before the range check: the
    \* page shows the counts of the values the run started with, df holds the
    \* coerced column afterwards
    /\ (call.op = "run" /\ ret.ok) =>
          /\ \A c \in DOMAIN call.pre :
                IF c \in DOMAIN call.args.range_rules
                THEN IsCoercionOf(df[c], call.pre[c])
                ELSE df[c] = call.pre[c]
          /\ \A c \in call.args.null_check_cols :
                ret.val[1].data[c] = Cardinality(MissingRows(call.pre[c]))

C6_Step ==
    \* only the range check (alone or in the handler) changes the dataset
    /\ call'.op \in {"none", "nulls", "duplicates", "types"} => df' = df
    \* a coerced column stays coerced
    /\ \A c \in DOMAIN orig : df[c] # orig[c] => df'[c] = df[c]

\* C6: check_ranges changes the shared dataset in place: after it returns,
\* every rule column present holds its numeric-coerced values and every other
\* column is unchanged; a checker invoked afterwards observes the coerced
\* values, a checker invoked before observes the originals.
C6_InPlaceCoercion == [](C6_State) /\ [][C6_Step]_vars

\* A type check made after a range check coerced text column "a": it finds
\* float where the column was loaded as text.
C6_Witness ==
    /\ call.op = "types"
    /\ ret.ok
    /\ "a" \in DOMAIN ret.val
    /\ orig["a"][1].t = "str"
    /\ ret.val["a"] = [expected |-> "str", found |-> "float"]

\* C7: check_ranges always returns a mapping: a rule whose comparison raises
\* gets a textual error entry, and the remaining rules are still evaluated.
C7_RangeNeverFails ==
    call.op = "ranges" =>
        /\ ret.ok
        /\ DOMAIN ret.val \subseteq RuleColumns
        /\ \A c \in RuleColumns :
              IF IsNumericPair(call.args[c])
              THEN /\ c \in DOMAIN ret.val <=>
                        RowsOutside(call.pre[c], call.args[c][1], call.args[c][2]) # {}
                   /\ c \in DOMAIN ret.val => ret.val[c].kind = "rows"
              ELSE c \in DOMAIN ret.val /\ ret.val[c].kind = "error"

\* The rule for "a" has a bound that is not a number, the rule for "b" is
\* (0, 3): "a" gets the error entry, "b" its violating rows.
C7_Witness ==
    /\ call.op = "ranges"
    /\ DOMAIN call.args = Cols
    /\ call.args["a"] = <<Lo, BadBound>>
    /\ DOMAIN ret.val = Cols
    /\ ret.val["a"].kind = "error"
    /\ ret.val["b"].kind = "rows"

\* The subheaders of the page, in the order the handler writes them; when a
\* check raises, its section is the first one the page lacks.
SectionOrder ==
    <<"Null Value Check", "Duplicate Records", "Data Type Validation", "Range Validation">>
FailedSection == SectionOrder[Len(ret.val) + 1]

\* C8: when one checker's error propagates during a run of the quality
\* checks, only that check's report is missing: the checks already reported
\* stay visible and every other check of the run is still invoked and
\* reported, so the page has all four sections but the failed one.
C8_FailureIsolation ==
    call.op = "run" =>
        \A n \in 1..Len(SectionOrder) :
            \/ \E k \in 1..Len(ret.val) : ret.val[k].section = SectionOrder[n]
            \/ ~ret.ok /\ SectionOrder[n] = FailedSection

Restrict(f, S) == [x \in DOMAIN f \cap S |-> f[x]]

\* C9: check_nulls with a name that is not a column fails with a lookup
\* error and returns no result; check_data_types and check_ranges skip a rule
\* for such a name: the outcome and the dataset are those of the call without
\* the rule, and the result has no entry for the name.
C9_AbsentColumn ==
    /\ (call.op = "nulls" /\ ~(call.args \subseteq DOMAIN call.pre)) =>
          ~ret.ok /\ ret.exc = "KeyError" /\ ret.val = <<>> /\ df = call.pre
    /\ call.op = "types" =>
          /\ ret = check_data_types(call.pre, Restrict(call.args, DOMAIN call.pre))
          /\ ret.ok => DOMAIN ret.val \subseteq DOMAIN call.pre
          /\ df = call.pre
    /\ call.op = "ranges" =>
          /\ ret = check_ranges(call.pre, Restrict(call.args, DOMAIN call.pre)).ret
          /\ df = check_ranges(call.pre, Restrict(call.args, DOMAIN call.pre)).df
          /\ ret.ok /\ DOMAIN ret.val \subseteq DOMAIN call.pre
          /\ RuleColumns = {} => df = call.pre

\* A range check with a rule for "a" and a rule for the absent "z": "a" is
\* evaluated and reported, "z" leaves no trace.
C9_Witness ==
    /\ call.op = "ranges"
    /\ DOMAIN call.args = {"a", Absent}
    /\ DOMAIN ret.val = {"a"}
    /\ ret.val["a"].kind = "rows"

\* C10: a range rule with minimum > maximum on an existing column reports
\* every row whose coerced value is non-missing, and yields no entry exactly
\* when every value of the column is missing after coercion.
C10_InvertedBounds ==
    call.op = "ranges" =>
        \A c \in RuleColumns :
            (IsNumericPair(call.args[c]) /\ call.args[c][1].n > call.args[c][2].n) =>
                ReportsExactly(c, {i \in 1..Len(call.pre[c]) : HasNumber(call.pre[c][i])})

\* Rule (3, 0) on the integer column 1, 5, 1: all three rows are reported.
C10_Witness ==
    /\ call.op = "ranges"
    /\ "a" \in DOMAIN call.args
    /\ call.args["a"] = <<Hi, Lo>>
    /\ call.pre["a"] = <<IntV(1), IntV(5), IntV(1)>>
    /\ "a" \in DOMAIN ret.val
    /\ ReportedRows(ret.val["a"]) = {1, 2, 3}
====
